---------------------------- MODULE Spec2Model ----------------------------
(***************************************************************************)
(* Model of src/main.py: a FastAPI backend with three endpoints.           *)
(*   /hot-news and /news map a sort preference and call fetch_news, which  *)
(*   checks two credentials, issues one GET to the news-search API and     *)
(*   projects the JSON items;                                              *)
(*   /article calls fetch_article_content, which GETs a page and extracts  *)
(*   a title and body text from the parsed HTML tree.                      *)
(* Each request is a coroutine; its steps between two awaits are one       *)
(* action.  Text is a sequence of one-character strings.                   *)
(***************************************************************************)
EXTENDS Naturals, Sequences, FiniteSets

VARIABLES
    NAVER_CLIENT_ID,      \* module global read from the environment at startup
    NAVER_CLIENT_SECRET,  \* module global read from the environment at startup
    pc,                   \* position of each request's coroutine
    req,                  \* the query of each request as it arrived
    args,                 \* url, headers and params the request built for its GET
    client,               \* the AsyncClient the request holds (0: none)
    open,                 \* the AsyncClient objects that are open
    usedBy,               \* <<client, request>>: which request has used which client
    nextClient,           \* identity of the next AsyncClient object constructed
    calls,                \* the outbound GETs each request has issued
    res,                  \* the response the request's GET returned
    raised,               \* whether the request's GET raised instead of returning
    out                   \* what the request answered to its caller

vars == <<NAVER_CLIENT_ID, NAVER_CLIENT_SECRET, pc, req, args, client, open,
          usedBy, nextClient, calls, res, raised, out>>

---------------------------------------------------------------------------
(* Bounds of the model *)

\* number of requests that may be in flight together
NumReqs == 2
\* most nodes of a freely shaped parsed page
MaxNodes == 4
\* most paragraphs of a page made of a run of <p> elements
MaxParas == 31
\* most items of a search response
MaxItems == 2

---------------------------------------------------------------------------
(* Constants of the program *)

DisplayCap == 100        \* min(limit, 100)
HotDefaultLimit == 5     \* Query(5, ge=1, le=50)
HotMaxLimit == 50
NewsDefaultLimit == 30   \* Query(30, ge=1, le=100)
NewsMaxLimit == 100
MinLimit == 1
FallbackLimit == 30      \* paragraphs[:30]
StatusOk == 200          \* res.status_code != 200
StatusError == 500       \* HTTPException(500, ...)
StatusUnprocessable == 422   \* the framework's answer to a query that fails Query(...)

NAVER_NEWS_URL == "https://openapi.naver.com/v1/search/news.json"
HotKeyword == "stock"    \* the fixed keyword of /hot-news (a Korean word in the source)
ContentId == "dic_area"  \* soup.select_one("#dic_area")

\* Python's None, and a query parameter the caller did not give
None == "<None>"
Absent == "<absent>"

Min(a, b) == IF a <= b THEN a ELSE b

---------------------------------------------------------------------------
(* Text: str.strip and "\n".join *)

Whitespace == {" ", "\n", "\t"}

RECURSIVE LStrip(_)
LStrip(s) ==
    IF s = <<>> THEN <<>>
    ELSE IF Head(s) \in Whitespace THEN LStrip(Tail(s)) ELSE s

RECURSIVE RStrip(_)
RStrip(s) ==
    IF s = <<>> THEN <<>>
    ELSE IF s[Len(s)] \in Whitespace THEN RStrip(SubSeq(s, 1, Len(s) - 1)) ELSE s

\* str.strip()
Strip(s) == RStrip(LStrip(s))

\* "\n".join(parts)
RECURSIVE JoinNewline(_)
JoinNewline(parts) ==
    IF parts = <<>> THEN <<>>
    ELSE IF Len(parts) = 1 THEN parts[1]
    ELSE parts[1] \o <<"\n">> \o JoinNewline(Tail(parts))

\* seq[:n]
Take(s, n) == SubSeq(s, 1, Min(n, Len(s)))

---------------------------------------------------------------------------
(* The parsed page: the nodes of the tree in document order.  A node is    *)
(* [tag, parent, id, text]: parent is the index of its parent element (0:  *)
(* the document), tag is "#text" for a string node, whose characters are   *)
(* in text.                                                                *)

TextTag == "#text"

Indices(doc) == [i \in 1..Len(doc) |-> i]

\* whether node i lies below element a
RECURSIVE IsDescendant(_, _, _)
IsDescendant(doc, i, a) ==
    LET p == doc[i].parent
    IN  IF p = 0 THEN FALSE
        ELSE IF p = a THEN TRUE
        ELSE IsDescendant(doc, p, a)

Element(tag, parent, id) == [tag |-> tag, parent |-> parent, id |-> id, text |-> <<>>]

TextNode(parent, text) == [tag |-> TextTag, parent |-> parent, id |-> "", text |-> text]

ElementChoices == {<<"title", "">>, <<"div", ContentId>>, <<"p", "">>, <<"span", "">>}

TextChoices == {<<" ">>, <<"a">>, <<" ", "b", "\n">>}

\* the elements a next node in document order can be a child of: the last
\* node's ancestors, the last node if it is an element, the document
RightPath(doc) ==
    IF doc = <<>> THEN {0}
    ELSE {0} \cup {i \in 1..Len(doc) :
                     /\ doc[i].tag # TextTag
                     /\ (i = Len(doc) \/ IsDescendant(doc, Len(doc), i))}

\* the nodes that can follow: a parser never leaves two strings side by side
NodesAfter(doc) ==
    {Element(e[1], p, e[2]) : e \in ElementChoices, p \in RightPath(doc)}
    \cup {TextNode(p, t) : t \in TextChoices,
            p \in {q \in RightPath(doc) :
                     ~(doc # <<>> /\ doc[Len(doc)].tag = TextTag
                       /\ doc[Len(doc)].parent = q)}}

\* tag.find_all(tags): the elements below a (0: the whole document) with one
\* of the tags, in document order
FindAll(doc, a, tags) ==
    SelectSeq(Indices(doc),
              LAMBDA i : doc[i].tag \in tags /\ (a = 0 \/ IsDescendant(doc, i, a)))

\* tag.get_text(strip=True): every string below the element, each stripped,
\* the empty ones skipped, concatenated with no separator
RECURSIVE TextFrom(_, _, _)
TextFrom(doc, a, i) ==
    IF i > Len(doc) THEN <<>>
    ELSE IF ~IsDescendant(doc, i, a) THEN <<>>
    ELSE (IF doc[i].tag = TextTag THEN Strip(doc[i].text) ELSE <<>>)
         \o TextFrom(doc, a, i + 1)

GetText(doc, a) == TextFrom(doc, a, a + 1)

\* soup.select_one("#dic_area"): the first element with that id (0: None)
SelectOne(doc, id) ==
    LET hits == {i \in 1..Len(doc) : doc[i].tag # TextTag /\ doc[i].id = id}
    IN  IF hits = {} THEN 0 ELSE CHOOSE i \in hits : \A j \in hits : i <= j

\* soup.title: the first <title> element (0: None)
SoupTitle(doc) ==
    LET hits == {i \in 1..Len(doc) : doc[i].tag = "title"}
    IN  IF hits = {} THEN 0 ELSE CHOOSE i \in hits : \A j \in hits : i <= j

\* tag.string: the tag's only child if that is a string, the only child's
\* .string if that is a tag, None otherwise
RECURSIVE TagString(_, _)
TagString(doc, a) ==
    LET kids == {j \in 1..Len(doc) : doc[j].parent = a}
    IN  IF Cardinality(kids) # 1 THEN [some |-> FALSE, val |-> <<>>]
        ELSE LET j == CHOOSE k \in kids : TRUE
             IN  IF doc[j].tag = TextTag THEN [some |-> TRUE, val |-> doc[j].text]
                 ELSE TagString(doc, j)

\* title = soup.title.string.strip() if soup.title and soup.title.string else ""
Title(doc) ==
    LET t == SoupTitle(doc)
    IN  IF t # 0 /\ TagString(doc, t).some /\ TagString(doc, t).val # <<>>
        THEN Strip(TagString(doc, t).val)
        ELSE <<>>

\* a primary strategy that looks at <p> alone
PrimaryTagsOnlyP == {"p"}

\* main_area.find_all(["p", "span"])
PrimaryTags == {"p", "span"}

\* [p.get_text(strip=True) for p in ... if p.get_text(strip=True)]
NonEmptyTexts(doc, found) ==
    SelectSeq([k \in 1..Len(found) |-> GetText(doc, found[k])],
              LAMBDA t : t # <<>>)

\* the paragraphs of the primary strategy, below the content container
PrimaryParagraphs(doc, main) == NonEmptyTexts(doc, FindAll(doc, main, PrimaryTags))

\* a fallback that cuts to 30 elements before it drops the empty ones
FallbackParagraphsCutFirst(doc) ==
    NonEmptyTexts(doc, Take(FindAll(doc, 0, {"p"}), FallbackLimit))

\* the paragraphs of the fallback: soup.find_all("p"), emptied ones dropped,
\* then paragraphs[:30]
FallbackParagraphs(doc) ==
    Take(NonEmptyTexts(doc, FindAll(doc, 0, {"p"})), FallbackLimit)

\* content_text after both strategies
ContentText(doc) ==
    LET main == SelectOne(doc, ContentId)
        primary == IF main # 0 THEN JoinNewline(PrimaryParagraphs(doc, main)) ELSE <<>>
    IN  IF primary = <<>> THEN JoinNewline(FallbackParagraphs(doc)) ELSE primary

\* a check that fails when either of the two is empty
ExtractionFailsEither(title, content) == title = <<>> \/ content = <<>>

\* if not title and not content_text: raise HTTPException(500, ...)
ExtractionFails(title, content) == title = <<>> /\ content = <<>>

---------------------------------------------------------------------------
(* The search adapter: the handlers' sort mapping, the credential check,   *)
(* the GET's arguments and the projection of the response.                 *)

\* get_hot_news: if sort in ["latest", "date", "time"]: "date" else: "sim"
HotNaverSort(sort) == IF sort \in {"latest", "date", "time"} THEN "date" ELSE "sim"

\* a mapping that forgets one of the recency tokens
NewsNaverSortNoTime(sort) == IF sort \in {"latest", "date"} THEN "date" ELSE "sim"

\* search_news: the same mapping, written a second time
NewsNaverSort(sort) == IF sort \in {"latest", "date", "time"} THEN "date" ELSE "sim"

\* Python's truth of an Optional[str]
Truthy(x) == x # None /\ x # ""

\* a check that looks at the client id alone
CredsMissingIdOnly(id, secret) == ~Truthy(id)

\* if not NAVER_CLIENT_ID or not NAVER_CLIENT_SECRET
CredsMissing(id, secret) == ~Truthy(id) \/ ~Truthy(secret)

\* "display": min(limit, 100)
Display(limit) == Min(limit, DisplayCap)

\* headers and params of fetch_news's GET
FetchNewsArgs(keyword, limit, sort, id, secret) ==
    [url |-> NAVER_NEWS_URL, id |-> id, secret |-> secret,
     query |-> keyword, display |-> Display(limit), sort |-> sort]

\* fetch_article_content's GET: the url alone
ArticleArgs(url) ==
    [url |-> url, id |-> Absent, secret |-> Absent,
     query |-> Absent, display |-> 0, sort |-> Absent]

\* dict.get(key): None when the key is absent
Get(item, key) == IF key \in DOMAIN item THEN item[key] ELSE None

\* a projection that reads the description under the output's key
ProjectDescKey(item) ==
    [title   |-> Get(item, "title"),
     desc    |-> Get(item, "desc"),
     link    |-> Get(item, "link"),
     pubDate |-> Get(item, "pubDate")]

\* one upstream item as an article summary
Project(item) ==
    [title   |-> Get(item, "title"),
     desc    |-> Get(item, "description"),
     link    |-> Get(item, "link"),
     pubDate |-> Get(item, "pubDate")]

\* data.get("items", [])
ItemsOf(data) == IF data.hasItems THEN data.items ELSE <<>>

\* articles = [ {...} for item in data.get("items", []) ]
Articles(data) == [i \in 1..Len(ItemsOf(data)) |-> Project(ItemsOf(data)[i])]

---------------------------------------------------------------------------
(* The queries and what a request answers *)

Search == {"hot-news", "news"}

\* constraints without the upper bounds le=50 and le=100
ValidNoUpperBound(q) ==
    IF q.endpoint = "hot-news"
    THEN q.limitGiven => MinLimit <= q.limit
    ELSE IF q.endpoint = "news"
    THEN q.keyword # Absent /\ (q.limitGiven => MinLimit <= q.limit)
    ELSE q.url # Absent

\* Query(..., ge=1, le=50), Query(...) required, Query(..., ge=1, le=100)
Valid(q) ==
    IF q.endpoint = "hot-news"
    THEN q.limitGiven => (MinLimit <= q.limit /\ q.limit <= HotMaxLimit)
    ELSE IF q.endpoint = "news"
    THEN /\ q.keyword # Absent
         /\ q.limitGiven => (MinLimit <= q.limit /\ q.limit <= NewsMaxLimit)
    ELSE q.url # Absent

\* the handler's limit: the query's, or the default
LimitOf(q) ==
    IF q.limitGiven THEN q.limit
    ELSE IF q.endpoint = "hot-news" THEN HotDefaultLimit ELSE NewsDefaultLimit

\* the handler's sort: the query's, or the default
SortOf(q) ==
    IF q.sort # Absent THEN q.sort
    ELSE IF q.endpoint = "hot-news" THEN "popular" ELSE "latest"

\* the keyword fetch_news is called with
KeywordOf(q) == IF q.endpoint = "hot-news" THEN HotKeyword ELSE q.keyword

\* the sort fetch_news is called with
NaverSortOf(q) ==
    IF q.endpoint = "hot-news" THEN HotNaverSort(SortOf(q)) ELSE NewsNaverSort(SortOf(q))

NoQuery ==
    [endpoint |-> Absent, limitGiven |-> FALSE, limit |-> 0,
     sort |-> Absent, keyword |-> Absent, url |-> Absent]

NoArgs == ArticleArgs(Absent)

NoJson == [valid |-> FALSE, hasItems |-> FALSE, items |-> <<>>]

NoRes == [status |-> 0, raw |-> Absent, json |-> NoJson, doc |-> <<>>]

NoNews == [keyword |-> Absent, count |-> 0, articles |-> <<>>]

NoArticle == [url |-> Absent, title |-> <<>>, content |-> <<>>, origin_link |-> Absent]

NoOut ==
    [kind |-> "none", status |-> 0, detail |-> <<>>, parsed |-> FALSE,
     news |-> NoNews, article |-> NoArticle]

\* the query failed its Query(...) constraints: the handler is never called
Rejected ==
    [NoOut EXCEPT !.kind = "rejected", !.status = StatusUnprocessable]

\* raise HTTPException(status, detail)
HttpError(status, detail, parsed) ==
    [NoOut EXCEPT !.kind = "http_error", !.status = status, !.detail = detail,
                  !.parsed = parsed]

\* an exception nothing catches: the server answers 500
Unhandled(what, parsed) ==
    [NoOut EXCEPT !.kind = "exception", !.status = StatusError, !.detail = <<what>>,
                  !.parsed = parsed]

\* a check that lets every status below 400 through
NewsStatusFailsFrom400(status) == status >= 400

\* if res.status_code != 200 (fetch_news)
NewsStatusFails(status) == status # StatusOk

\* if res.status_code != 200 (fetch_article_content)
ArticleStatusFails(status) == status # StatusOk

\* fetch_news once its client is closed
FetchNewsResult(keyword, r) ==
    IF NewsStatusFails(r.status) THEN HttpError(r.status, <<r.raw>>, FALSE)
    ELSE IF ~r.json.valid THEN Unhandled("res.json()", TRUE)
    ELSE [NoOut EXCEPT !.kind = "ok", !.status = StatusOk, !.parsed = TRUE,
                       !.news = [keyword  |-> keyword,
                                 count    |-> Len(Articles(r.json)),
                                 articles |-> Articles(r.json)]]

\* fetch_article_content once its client is closed
ArticleResult(url, r) ==
    IF ArticleStatusFails(r.status)
    THEN HttpError(r.status, <<"article request failed: ", r.raw>>, FALSE)
    ELSE IF ExtractionFails(Title(r.doc), ContentText(r.doc))
    THEN HttpError(StatusError, <<"could not get the body">>, TRUE)
    ELSE [NoOut EXCEPT !.kind = "ok", !.status = StatusOk, !.parsed = TRUE,
                       !.article = [url         |-> url,
                                    title       |-> Title(r.doc),
                                    content     |-> ContentText(r.doc),
                                    origin_link |-> url]]

---------------------------------------------------------------------------
(* The steps of a request *)

Reqs == 1..NumReqs

\* httpx.AsyncClient(): a new object each time
NewClient == nextClient

\* a client closed by hand after the call, which a raise skips
ClosesOnExitUnlessRaised(hasRaised) == ~hasRaised

\* async with: __aexit__ runs whether the body returned or raised
ClosesOnExit(hasRaised) == TRUE

\* The request arrives: the framework checks the query, the handler maps the
\* sort, fetch_news checks the credentials and builds headers and params.
Arrive(r, queries) ==
    /\ pc[r] = "idle"
    /\ \E q \in queries :
        /\ req' = [req EXCEPT ![r] = q]
        /\ IF ~Valid(q)
           THEN /\ out' = [out EXCEPT ![r] = Rejected]
                /\ pc' = [pc EXCEPT ![r] = "done"]
                /\ args' = args
           ELSE IF q.endpoint \in Search /\ CredsMissing(NAVER_CLIENT_ID, NAVER_CLIENT_SECRET)
           THEN /\ out' = [out EXCEPT ![r] =
                              HttpError(StatusError, <<"NAVER API key missing">>, FALSE)]
                /\ pc' = [pc EXCEPT ![r] = "done"]
                /\ args' = args
           ELSE /\ args' = [args EXCEPT ![r] =
                              IF q.endpoint \in Search
                              THEN FetchNewsArgs(KeywordOf(q), LimitOf(q), NaverSortOf(q),
                                                 NAVER_CLIENT_ID, NAVER_CLIENT_SECRET)
                              ELSE ArticleArgs(q.url)]
                /\ pc' = [pc EXCEPT ![r] = "enter"]
                /\ out' = out
    /\ UNCHANGED <<NAVER_CLIENT_ID, NAVER_CLIENT_SECRET, client, open, usedBy,
                   nextClient, calls, res, raised>>

\* async with httpx.AsyncClient() as client
OpenClient(r) ==
    /\ pc[r] = "enter"
    /\ client' = [client EXCEPT ![r] = NewClient]
    /\ open' = open \cup {NewClient}
    /\ usedBy' = usedBy \cup {<<NewClient, r>>}
    /\ nextClient' = nextClient + 1
    /\ pc' = [pc EXCEPT ![r] = "get"]
    /\ UNCHANGED <<NAVER_CLIENT_ID, NAVER_CLIENT_SECRET, req, args, calls, res,
                   raised, out>>

\* a call that is issued a second time
SendGetTwice(r) ==
    /\ pc[r] = "get"
    /\ calls' = [calls EXCEPT ![r] =
                    @ \o << [client |-> client[r], args |-> args[r]],
                            [client |-> client[r], args |-> args[r]] >>]
    /\ pc' = [pc EXCEPT ![r] = "await"]
    /\ UNCHANGED <<NAVER_CLIENT_ID, NAVER_CLIENT_SECRET, req, args, client, open,
                   usedBy, nextClient, res, raised, out>>

\* client.get(...): the one outbound call
SendGet(r) ==
    /\ pc[r] = "get"
    /\ calls' = [calls EXCEPT ![r] = Append(@, [client |-> client[r], args |-> args[r]])]
    /\ pc' = [pc EXCEPT ![r] = "await"]
    /\ UNCHANGED <<NAVER_CLIENT_ID, NAVER_CLIENT_SECRET, req, args, client, open,
                   usedBy, nextClient, res, raised, out>>

\* res = await client.get(...): the upstream answers
Respond(r, statuses, datas, docs) ==
    /\ pc[r] = "await"
    /\ \E s \in statuses :
       \E j \in (IF s = StatusOk /\ req[r].endpoint \in Search THEN datas ELSE {NoJson}) :
       \E d \in (IF s = StatusOk /\ req[r].endpoint \notin Search THEN docs ELSE {<<>>}) :
          res' = [res EXCEPT ![r] = [status |-> s, raw |-> "upstream body",
                                     json |-> j, doc |-> d]]
    /\ pc' = [pc EXCEPT ![r] = "exit"]
    /\ UNCHANGED <<NAVER_CLIENT_ID, NAVER_CLIENT_SECRET, req, args, client, open,
                   usedBy, nextClient, calls, raised, out>>

\* The body of a page is read on: one more node of its tree, in document
\* order, up to maxNodes nodes.  get returns when the body is complete.
MoreBody(r, maxNodes) ==
    /\ pc[r] = "exit"
    /\ ~raised[r]
    /\ res[r].status = StatusOk
    /\ req[r].endpoint \notin Search
    /\ Len(res[r].doc) < maxNodes
    /\ \E nd \in NodesAfter(res[r].doc) :
          res' = [res EXCEPT ![r].doc = Append(@, nd)]
    /\ UNCHANGED <<NAVER_CLIENT_ID, NAVER_CLIENT_SECRET, pc, req, args, client, open,
                   usedBy, nextClient, calls, raised, out>>

\* await client.get(...) raises: no connection, a timeout
TransportError(r) ==
    /\ pc[r] = "await"
    /\ raised' = [raised EXCEPT ![r] = TRUE]
    /\ pc' = [pc EXCEPT ![r] = "exit"]
    /\ UNCHANGED <<NAVER_CLIENT_ID, NAVER_CLIENT_SECRET, req, args, client, open,
                   usedBy, nextClient, calls, res, out>>

\* leaving the async with block: the client is closed, then the exception, if
\* any, goes on to the caller
CloseClient(r) ==
    /\ pc[r] = "exit"
    /\ open' = IF ClosesOnExit(raised[r]) THEN open \ {client[r]} ELSE open
    /\ IF raised[r]
       THEN /\ out' = [out EXCEPT ![r] = Unhandled("client.get()", FALSE)]
            /\ pc' = [pc EXCEPT ![r] = "done"]
       ELSE /\ pc' = [pc EXCEPT ![r] = "resume"]
            /\ out' = out
    /\ UNCHANGED <<NAVER_CLIENT_ID, NAVER_CLIENT_SECRET, req, args, client, usedBy,
                   nextClient, calls, res, raised>>

\* the rest of fetch_news or fetch_article_content, to its return or raise
Finish(r) ==
    /\ pc[r] = "resume"
    /\ out' = [out EXCEPT ![r] =
                  IF req[r].endpoint \in Search
                  THEN FetchNewsResult(KeywordOf(req[r]), res[r])
                  ELSE ArticleResult(req[r].url, res[r])]
    /\ pc' = [pc EXCEPT ![r] = "done"]
    /\ UNCHANGED <<NAVER_CLIENT_ID, NAVER_CLIENT_SECRET, req, args, client, open,
                   usedBy, nextClient, calls, res, raised>>

---------------------------------------------------------------------------
(* The inputs: queries, upstream answers, credentials *)

Query(endpoint, limitGiven, limit, sort, keyword, url) ==
    [endpoint |-> endpoint, limitGiven |-> limitGiven, limit |-> limit,
     sort |-> sort, keyword |-> keyword, url |-> url]

\* a limit the caller gives, or leaves out
LimitChoices ==
    {<<FALSE, 0>>} \cup {<<TRUE, n>> : n \in {0, 1, 50, 51, 100, 101, 500}}

SortChoices == {Absent, "latest", "date", "time", "popular", "", "LATEST", "sim"}

KeywordChoices == {Absent, "", "samsung"}

UrlChoices == {Absent, "https://n.news.naver.com/article/1"}

\* every query of the three endpoints over these choices
AllQueries ==
    {Query("hot-news", l[1], l[2], s, Absent, Absent) :
        l \in LimitChoices, s \in SortChoices}
    \cup {Query("news", l[1], l[2], s, k, Absent) :
        l \in LimitChoices, s \in SortChoices, k \in KeywordChoices}
    \cup {Query("article", FALSE, 0, Absent, Absent, u) : u \in UrlChoices}

\* one query of each kind, and one the framework rejects
FewQueries ==
    {Query("hot-news", FALSE, 0, Absent, Absent, Absent),
     Query("news", TRUE, 0, "latest", "samsung", Absent),
     Query("article", FALSE, 0, Absent, Absent, "https://n.news.naver.com/article/1")}

\* a search and a page fetch that reach the upstream
DataQueries ==
    {Query("news", TRUE, 2, "latest", "samsung", Absent),
     Query("article", FALSE, 0, Absent, Absent, "https://n.news.naver.com/article/1")}

AllStatuses == {200, 201, 302, 404, 500}

FewStatuses == {200, 404}

CredChoices == {None, "", "key"}

\* upstream items: any of the four projected keys present or not
ItemKeys == {"title", "description", "link", "pubDate"}

ItemValues(key) ==
    IF key = "title" THEN {"T1", "T2"}
    ELSE IF key = "description" THEN {"D"}
    ELSE IF key = "link" THEN {"L"}
    ELSE {"P"}

Items ==
    UNION {{it \in [ks -> {"T1", "T2", "D", "L", "P"}] :
              \A k \in ks : it[k] \in ItemValues(k)} : ks \in SUBSET ItemKeys}

\* response bodies of the search API: not JSON, an object without "items",
\* an object with up to MaxItems items
AllDatas ==
    {NoJson, [valid |-> TRUE, hasItems |-> FALSE, items |-> <<>>]}
    \cup {[valid |-> TRUE, hasItems |-> TRUE, items |-> its] :
            its \in UNION {[1..n -> Items] : n \in 0..MaxItems}}

FewDatas ==
    {NoJson,
     [valid |-> TRUE, hasItems |-> FALSE, items |-> <<>>],
     [valid |-> TRUE, hasItems |-> TRUE,
      items |-> <<[title |-> "T1", link |-> "L"]>>]}

\* n paragraphs in a row, the e-th of them blank
ParaDoc(n, e) ==
    [i \in 1..(2 * n) |->
        IF i % 2 = 1 THEN Element("p", 0, "")
        ELSE TextNode(i - 1, IF i \div 2 = e THEN <<" ">>
                             ELSE IF (i \div 2) % 2 = 1 THEN <<"a">> ELSE <<"b">>)]

\* parsed pages made of a run of paragraphs (none at all: the empty page)
ParaDocs == {ParaDoc(n, e) : n \in 0..MaxParas, e \in 0..MaxParas}

FewDocs ==
    {<<>>,
     <<Element("title", 0, ""), TextNode(1, <<"a">>)>>,
     <<Element("div", 0, ContentId), Element("p", 1, ""), TextNode(2, <<"a">>)>>}

---------------------------------------------------------------------------
(* The specifications *)

InitWith(ids, secrets) ==
    /\ NAVER_CLIENT_ID \in ids
    /\ NAVER_CLIENT_SECRET \in secrets
    /\ pc = [r \in Reqs |-> "idle"]
    /\ req = [r \in Reqs |-> NoQuery]
    /\ args = [r \in Reqs |-> NoArgs]
    /\ client = [r \in Reqs |-> 0]
    /\ open = {}
    /\ usedBy = {}
    /\ nextClient = 1
    /\ calls = [r \in Reqs |-> <<>>]
    /\ res = [r \in Reqs |-> NoRes]
    /\ raised = [r \in Reqs |-> FALSE]
    /\ out = [r \in Reqs |-> NoOut]

\* one request, every query and every status, a few bodies
Init == InitWith(CredChoices, CredChoices)

Next ==
    \/ Arrive(1, AllQueries)
    \/ OpenClient(1)
    \/ SendGet(1)
    \/ Respond(1, AllStatuses, FewDatas, FewDocs)
    \/ TransportError(1)
    \/ CloseClient(1)
    \/ Finish(1)

Spec == Init /\ [][Next]_vars

\* one request, a few queries, every body
InitData == InitWith({"key"}, {"secret"})

NextData ==
    \/ Arrive(1, DataQueries)
    \/ OpenClient(1)
    \/ SendGet(1)
    \/ Respond(1, FewStatuses, AllDatas, ParaDocs)
    \/ MoreBody(1, MaxNodes)
    \/ TransportError(1)
    \/ CloseClient(1)
    \/ Finish(1)

SpecData == InitData /\ [][NextData]_vars

\* requests in flight together, a few queries and bodies
InitConc == InitWith({None, "key"}, {"secret"})

NextConc ==
    \E r \in Reqs :
        \/ Arrive(r, FewQueries)
        \/ OpenClient(r)
        \/ SendGet(r)
        \/ Respond(r, FewStatuses, FewDatas, FewDocs)
        \/ TransportError(r)
        \/ CloseClient(r)
        \/ Finish(r)

SpecConc == InitConc /\ [][NextConc]_vars

---------------------------------------------------------------------------
(* Properties.  They are stated on the queries, the upstream answers and   *)
(* what the requests answered, with the program's rules written out again. *)

Done(r) == pc[r] = "done"

IsSearch(r) == req[r].endpoint \in {"hot-news", "news"}

IsArticle(r) == req[r].endpoint = "article"

CredentialAbsent(x) == x = None \/ x = ""

\* the limit and the sort a query stands for, defaults filled in
GivenLimit(q) ==
    IF q.limitGiven THEN q.limit ELSE IF q.endpoint = "hot-news" THEN 5 ELSE 30

GivenSort(q) ==
    IF q.sort # Absent THEN q.sort
    ELSE IF q.endpoint = "hot-news" THEN "popular" ELSE "latest"

\* the declared constraints of the three endpoints' parameters
MeetsConstraints(q) ==
    /\ q.endpoint = "hot-news" => (q.limitGiven => q.limit \in 1..50)
    /\ q.endpoint = "news" => (q.keyword # Absent /\ (q.limitGiven => q.limit \in 1..100))
    /\ q.endpoint = "article" => q.url # Absent

\* C1: when either credential is unset or empty, no request to /hot-news or
\* /news ever opens a client or issues a call, and every such request that
\* reaches fetch_news (its query meets the declared constraints) ends with
\* status 500 and the configuration message.
C1_NoCallWithoutCredentials ==
    (CredentialAbsent(NAVER_CLIENT_ID) \/ CredentialAbsent(NAVER_CLIENT_SECRET)) =>
        \A r \in Reqs : IsSearch(r) =>
            /\ calls[r] = <<>>
            /\ client[r] = 0
            /\ {u \in usedBy : u[2] = r} = {}
            /\ Done(r)
            /\ MeetsConstraints(req[r]) =>
                  /\ out[r].kind = "http_error"
                  /\ out[r].status = 500
                  /\ out[r].detail = <<"NAVER API key missing">>
                  /\ out[r].news = NoNews

C1_Witness ==
    \E r \in Reqs :
        /\ req[r].endpoint = "news" /\ MeetsConstraints(req[r])
        /\ NAVER_CLIENT_ID = "key" /\ NAVER_CLIENT_SECRET = ""
        /\ Done(r) /\ out[r].status = 500 /\ calls[r] = <<>>

\* C2 as stated: a request to /news (or /hot-news) whose limit is above the
\* endpoint's maximum results in an upstream request whose display count is
\* the cap, 100.
C2_OverLimitIsClamped ==
    \A r \in Reqs :
        ( /\ Done(r) /\ IsSearch(r)
          /\ req[r].limitGiven
          /\ req[r].limit > (IF req[r].endpoint = "news" THEN 100 ELSE 50)
          /\ req[r].endpoint = "news" => req[r].keyword # Absent
          /\ ~CredentialAbsent(NAVER_CLIENT_ID) /\ ~CredentialAbsent(NAVER_CLIENT_SECRET) )
        => /\ Len(calls[r]) = 1
           /\ calls[r][1].args.display = 100

\* C2 amended: no upstream request carries a display count above 100, and the
\* count sent is the query's limit; a query whose limit is above its
\* endpoint's maximum (100 for /news, 50 for /hot-news) is rejected at
\* parameter validation and no upstream request is made for it.
C2_DisplayNeverAboveCap ==
    \A r \in Reqs :
        /\ \A i \in 1..Len(calls[r]) :
              IsSearch(r) =>
                  /\ calls[r][i].args.display <= 100
                  /\ calls[r][i].args.display = GivenLimit(req[r])
        /\ ( /\ IsSearch(r) /\ req[r].limitGiven
             /\ req[r].limit > (IF req[r].endpoint = "news" THEN 100 ELSE 50) )
           => /\ calls[r] = <<>>
              /\ Done(r)
              /\ out[r].kind = "rejected"

C2_Witness ==
    \E r \in Reqs :
        /\ req[r].endpoint = "news" /\ req[r].keyword = "samsung"
        /\ req[r].limitGiven /\ req[r].limit = 500
        /\ NAVER_CLIENT_ID = "key" /\ NAVER_CLIENT_SECRET = "key"
        /\ Done(r) /\ out[r].kind = "rejected" /\ calls[r] = <<>>

\* C3: on both endpoints the sort sent upstream is "date" when the sort given
\* (or the endpoint's default) is one of "latest", "date", "time", and "sim"
\* for every other string; no query is rejected because of its sort.
C3_SortMappingTotal ==
    \A r \in Reqs : IsSearch(r) =>
        /\ \A i \in 1..Len(calls[r]) :
              calls[r][i].args.sort =
                  (IF GivenSort(req[r]) = "latest" \/ GivenSort(req[r]) = "date"
                      \/ GivenSort(req[r]) = "time"
                   THEN "date" ELSE "sim")
        /\ out[r].kind = "rejected" => ~MeetsConstraints(req[r])
        /\ ( /\ MeetsConstraints(req[r])
             /\ ~CredentialAbsent(NAVER_CLIENT_ID)
             /\ ~CredentialAbsent(NAVER_CLIENT_SECRET)
             /\ Done(r) )
           => Len(calls[r]) = 1

C3_Witness ==
    \E r \in Reqs :
        /\ req[r].endpoint = "news" /\ req[r].sort = "time"
        /\ Len(calls[r]) = 1 /\ calls[r][1].args.sort = "date"

\* C8: a request that passed parameter validation and fails ends with the
\* upstream's status when the upstream answered with a status other than
\* 200, and with 500 otherwise; when the search API or the page answers
\* with a non-success status s the request ends in an error of status s
\* whose message carries the raw upstream body, without a payload and
\* without the body having been parsed.
C8_ErrorsMirrorUpstreamStatus ==
    \A r \in Reqs : Done(r) =>
        /\ out[r].kind \in {"http_error", "exception"} =>
              out[r].status = (IF res[r].status # 0 /\ res[r].status # 200
                               THEN res[r].status ELSE 500)
        /\ (res[r].status # 0 /\ res[r].status \notin 200..299) =>
              /\ out[r].kind = "http_error"
              /\ out[r].status = res[r].status
              /\ out[r].detail # <<>>
              /\ out[r].detail[Len(out[r].detail)] = res[r].raw
              /\ IsSearch(r) => out[r].detail = <<res[r].raw>>
              /\ ~out[r].parsed
              /\ out[r].news = NoNews
              /\ out[r].article = NoArticle

C8_Witness ==
    \E r \in Reqs :
        /\ Done(r) /\ IsSearch(r) /\ res[r].status = 404
        /\ out[r].kind = "http_error" /\ out[r].status = 404

\* C9: a request issues at most one outbound GET in its whole life; once it
\* has passed parameter validation and, for search, the credential check, it
\* issues exactly one, carrying the mapped sort, the keyword and the limit
\* (or the given URL), also when the call raises or answers a non-success
\* status; a request that did not pass issues none.
C9_ExactlyOneCall ==
    \A r \in Reqs :
        LET passed ==
                /\ req[r] # NoQuery
                /\ MeetsConstraints(req[r])
                /\ IsSearch(r) => (~CredentialAbsent(NAVER_CLIENT_ID)
                                   /\ ~CredentialAbsent(NAVER_CLIENT_SECRET))
        IN  /\ Len(calls[r]) <= 1
            /\ (passed /\ pc[r] \in {"await", "exit", "resume", "done"}) => Len(calls[r]) = 1
            /\ ~passed => calls[r] = <<>>
            /\ (Done(r) /\ (raised[r] \/ (res[r].status # 0 /\ res[r].status # 200))) =>
                  /\ out[r].kind \in {"http_error", "exception"}
                  /\ Len(calls[r]) = 1
            /\ \A i \in 1..Len(calls[r]) :
                  LET a == calls[r][i].args
                  IN  IF IsSearch(r)
                      THEN /\ a.url = "https://openapi.naver.com/v1/search/news.json"
                           /\ a.query = (IF req[r].endpoint = "news"
                                         THEN req[r].keyword ELSE "stock")
                           /\ a.display = GivenLimit(req[r])
                           /\ a.sort \in {"date", "sim"}
                           /\ a.sort = "date" <=>
                                 GivenSort(req[r]) \in {"latest", "date", "time"}
                           /\ a.id = NAVER_CLIENT_ID
                           /\ a.secret = NAVER_CLIENT_SECRET
                      ELSE a.url = req[r].url

C9_Witness ==
    \E r \in Reqs :
        /\ Done(r) /\ IsSearch(r) /\ res[r].status = 500
        /\ out[r].kind = "http_error" /\ Len(calls[r]) = 1

---------------------------------------------------------------------------
(* Properties of the projection and of the extraction *)

\* the value the upstream item has under a key, None when it has none
FieldOrNone(item, key) == IF key \in DOMAIN item THEN item[key] ELSE None

\* C4: for a 200 answer that is a JSON object with N items, the result's
\* count is N, it has N articles, and the i-th article is title, desc (from
\* description), link and pubDate of the i-th item, None for a key the item
\* lacks; an object without "items" gives count 0.
C4_ProjectionKeepsOrder ==
    \A r \in Reqs :
        (Done(r) /\ IsSearch(r) /\ res[r].status = 200 /\ res[r].json.valid) =>
            LET items == IF res[r].json.hasItems THEN res[r].json.items ELSE <<>>
                arts == out[r].news.articles
            IN  /\ out[r].kind = "ok"
                /\ out[r].news.keyword = req[r].keyword
                /\ out[r].news.count = Len(items)
                /\ Len(arts) = Len(items)
                /\ ~res[r].json.hasItems => out[r].news.count = 0
                /\ \A i \in 1..Len(items) :
                      /\ DOMAIN arts[i] = {"title", "desc", "link", "pubDate"}
                      /\ arts[i].title = FieldOrNone(items[i], "title")
                      /\ arts[i].desc = FieldOrNone(items[i], "description")
                      /\ arts[i].link = FieldOrNone(items[i], "link")
                      /\ arts[i].pubDate = FieldOrNone(items[i], "pubDate")

C4_Witness ==
    \E r \in Reqs :
        /\ Done(r) /\ out[r].kind = "ok" /\ out[r].news.count = 2
        /\ out[r].news.articles[1].title = "T2" /\ out[r].news.articles[1].desc = None
        /\ out[r].news.articles[2].title = "T1" /\ out[r].news.articles[2].desc = "D"

\* the first element of the page with the content container's id (0: none)
Container(doc) ==
    IF \E i \in 1..Len(doc) : doc[i].tag # TextTag /\ doc[i].id = "dic_area"
    THEN CHOOSE i \in 1..Len(doc) :
            /\ doc[i].tag # TextTag /\ doc[i].id = "dic_area"
            /\ \A j \in 1..(i - 1) : doc[j].tag = TextTag \/ doc[j].id # "dic_area"
    ELSE 0

\* the paragraph-like elements below the container whose text is not empty
ContainerParagraphs(doc) ==
    {i \in 1..Len(doc) :
        /\ Container(doc) # 0
        /\ IsDescendant(doc, i, Container(doc))
        /\ doc[i].tag \in {"p", "span"}
        /\ GetText(doc, i) # <<>>}

\* the texts of a set of elements, one per line, in document order
RECURSIVE LinesOf(_, _)
LinesOf(doc, elems) ==
    IF elems = {} THEN <<>>
    ELSE LET first == CHOOSE i \in elems : \A j \in elems : i <= j
         IN  IF elems = {first} THEN GetText(doc, first)
             ELSE GetText(doc, first) \o <<"\n">> \o LinesOf(doc, elems \ {first})

\* the characters of the non-blank strings below any of a set of elements,
\* every string counted once
RECURSIVE StrippedLength(_, _)
StrippedLength(doc, strings) ==
    IF strings = {} THEN 0
    ELSE LET t == CHOOSE i \in strings : TRUE
         IN  Len(Strip(doc[t].text)) + StrippedLength(doc, strings \ {t})

StringsBelow(doc, elems) ==
    {t \in 1..Len(doc) :
        doc[t].tag = TextTag /\ \E k \in elems : IsDescendant(doc, t, k)}

\* a request for a page that was answered with status 200 and has returned
FetchedPage(r) == Done(r) /\ IsArticle(r) /\ res[r].status = 200

PrimaryEmpty(doc) == ContainerParagraphs(doc) = {}

\* the <p> elements of the page
AllP(doc) == {i \in 1..Len(doc) : doc[i].tag = "p"}

\* the first n elements of a set, in document order
FirstOf(elems, n) == {i \in elems : Cardinality({j \in elems : j <= i}) <= n}

\* C6 as stated: when the primary strategy gives no text, the content is built
\* from the first 30 <p> elements of the page, the empty ones among them
\* dropped: no element after the 30th contributes.
C6_FallbackFirst30Elements ==
    \A r \in Reqs :
        (FetchedPage(r) /\ PrimaryEmpty(res[r].doc) /\ out[r].kind = "ok") =>
            LET doc == res[r].doc
            IN  out[r].article.content =
                    LinesOf(doc, {i \in FirstOf(AllP(doc), 30) : GetText(doc, i) # <<>>})

\* C6 amended: when the primary strategy gives no text, the content is the
\* texts of the first 30 <p> elements that have text (the empty ones are
\* dropped before the count; span elements are not looked at), joined by
\* newlines in document order; a request that ends without a page payload
\* had no such element.
C6_FallbackFirst30NonEmpty ==
    \A r \in Reqs :
        (FetchedPage(r) /\ PrimaryEmpty(res[r].doc)) =>
            LET doc == res[r].doc
                withText == {i \in AllP(doc) : GetText(doc, i) # <<>>}
            IN  /\ out[r].kind = "ok" =>
                      out[r].article.content = LinesOf(doc, FirstOf(withText, 30))
                /\ out[r].kind # "ok" => withText = {}

\* a page of more than 30 paragraphs with text, cut to 30 lines
C6_Witness ==
    \E r \in Reqs :
        /\ FetchedPage(r) /\ PrimaryEmpty(res[r].doc) /\ out[r].kind = "ok"
        /\ Cardinality({i \in AllP(res[r].doc) : GetText(res[r].doc, i) # <<>>}) > 30
        /\ Len(out[r].article.content) = 59

\* C7: for a page answered with status 200 the request fails, with status
\* 500, exactly when the title and the content are both empty after both
\* strategies; otherwise it returns url, title, content and origin_link,
\* url and origin_link being the requested URL.
C7_FailsIffTitleAndContentEmpty ==
    \A r \in Reqs :
        FetchedPage(r) =>
            LET title == Title(res[r].doc)
                content == ContentText(res[r].doc)
            IN  /\ out[r].kind \in {"ok", "http_error"}
                /\ out[r].kind = "http_error" <=> (title = <<>> /\ content = <<>>)
                /\ out[r].kind = "http_error" =>
                      out[r].status = 500 /\ out[r].article = NoArticle
                /\ out[r].kind = "ok" =>
                      /\ out[r].article.url = req[r].url
                      /\ out[r].article.origin_link = req[r].url
                      /\ out[r].article.title = title
                      /\ out[r].article.content = content
                      /\ DOMAIN out[r].article = {"url", "title", "content", "origin_link"}

\* a page with a title and no paragraph text
C7_Witness ==
    \E r \in Reqs :
        /\ FetchedPage(r) /\ out[r].kind = "ok"
        /\ out[r].article.title # <<>> /\ out[r].article.content = <<>>

---------------------------------------------------------------------------
(* Properties of the clients of requests in flight together *)

\* C10: every client is opened by one request and used by no other; a request
\* that has left its async with block (it inspects the status, or has
\* answered) holds no open client, whether its call returned or raised; the
\* open clients are those of requests inside their block, and each call went
\* out on the caller's own client.
C10_ClientScopedToOneCall ==
    /\ \A r \in Reqs :
          /\ pc[r] \in {"idle", "enter", "resume", "done"} => client[r] \notin open
          /\ pc[r] \in {"get", "await", "exit"} => client[r] \in open
          /\ \A i \in 1..Len(calls[r]) : calls[r][i].client = client[r]
          /\ client[r] # 0 => <<client[r], r>> \in usedBy
    /\ \A u, v \in usedBy : u[1] = v[1] => u[2] = v[2]
    /\ \A r, q \in Reqs : (r # q /\ client[r] # 0) => client[r] # client[q]
    /\ open \subseteq {client[r] : r \in {q \in Reqs : pc[q] \in {"get", "await", "exit"}}}

\* a request has answered after its call raised, another is inside its block
C10_Witness ==
    \E r, q \in Reqs :
        /\ r # q
        /\ Done(r) /\ raised[r] /\ client[r] # 0 /\ client[r] \notin open
        /\ pc[q] = "await" /\ client[q] \in open

=============================================================================
